---- MODULE Spec2Model ----
(***************************************************************************)
(* A model of fixincome/utils.py: the time-value-of-money formulas, the    *)
(* root-finding wrappers around scipy's fsolve, the dated cash-flow        *)
(* valuation and the Macaulay duration.                                    *)
(*                                                                         *)
(* Numbers.  The library computes with Python floats.  A number of the     *)
(* model is a rational n/d in lowest terms (d > 0), and a call runs in one *)
(* of two arithmetics, fixed for the call by the variable arith:           *)
(*   "exact"  every operation yields the exact rational: the real-number   *)
(*            reading of the formulas;                                     *)
(*   "float"  every operation rounds its exact result to the nearest       *)
(*            binary floating-point number (ties to even), as IEEE 754     *)
(*            arithmetic does, with a mantissa of MantissaBits bits in     *)
(*            place of the 53 of a Python float and no exponent limits.    *)
(* A Python exception raised while a number is being computed is carried   *)
(* in the field err of the number and propagates through every later       *)
(* operation, as an uncaught exception does.                               *)
(***************************************************************************)
EXTENDS Integers, Sequences, FiniteSets, TLC

VARIABLES
    arith,      \* the arithmetic of the call: "exact" or "float"
    fn,         \* the library function called
    args,       \* the arguments the caller passes
    caller_cashflows,  \* the caller's cash-flow list (<<>> when none is passed)
    caller_dates,      \* the caller's date list (<<>> when none is passed)
    result,     \* what the call returned, or the exception it raised
    pc,         \* "call", "solving" while fsolve iterates, then "done"
    iterate,    \* fsolve's current iterate
    nfev,       \* function evaluations fsolve has spent after the first
    ier         \* fsolve's own verdict: 0 none, 1 converged, 2 budget spent

vars ==
    <<arith, fn, args, caller_cashflows, caller_dates, result, pc, iterate,
      nfev, ier>>

----------------------------------------------------------------------------
(* Bounds of the model. *)

\* longest cash-flow or date sequence a caller passes
MaxLen == 3
\* largest number of periods (nper, term) a caller passes
MaxNper == 3
\* longest cash-flow or date sequence a caller passes to a root finder
MaxSolveLen == 2
\* function evaluations fsolve may spend after the one at the guess
MaxFev == 2
\* bits in the mantissa of a floating-point number of the model
MantissaBits == 4

----------------------------------------------------------------------------
(* Rational numbers, and Python's float operations on them. *)

Abs(i) == IF i < 0 THEN -i ELSE i

RECURSIVE GCD(_, _)
GCD(a, b) == IF b = 0 THEN a ELSE GCD(b, a % b)

\* the number n/d, d # 0, in lowest terms
Num(n, d) ==
    LET g == GCD(Abs(n), Abs(d))
        s == IF d < 0 THEN -1 ELSE 1
    IN  [err |-> "", n |-> (s * n) \div g, d |-> (s * d) \div g]

Int2Num(i) == [err |-> "", n |-> i, d |-> 1]
Zero == Int2Num(0)
One == Int2Num(1)

\* an exception in flight instead of a number
Raise(e) == [err |-> e, n |-> 0, d |-> 1]
Ok(a) == a.err = ""

RECURSIVE IntPow(_, _)
IntPow(b, k) == IF k = 0 THEN 1 ELSE b * IntPow(b, k - 1)

\* exact sum, difference, product and order of two numbers
QAdd(a, b) == Num(a.n * b.d + b.n * a.d, a.d * b.d)
QSub(a, b) == Num(a.n * b.d - b.n * a.d, a.d * b.d)
QMul(a, b) == Num(a.n * b.n, a.d * b.d)
QAbs(a) == Num(Abs(a.n), a.d)
QLeq(a, b) == a.n * b.d <= b.n * a.d

\* n/d > 0 scaled by a power of two into [2^(MantissaBits-1), 2^MantissaBits):
\* n/d = (scaled n / scaled d) * 2^e
RECURSIVE Scaled(_, _, _)
Scaled(n, d, e) ==
    IF n >= d * IntPow(2, MantissaBits) THEN Scaled(n, 2 * d, e + 1)
    ELSE IF n < d * IntPow(2, MantissaBits - 1) THEN Scaled(2 * n, d, e - 1)
    ELSE [n |-> n, d |-> d, e |-> e]

\* the integer nearest to n/d = m0 + twice/(2*d), ties to the even one
NearestEven(m0, twice, d) ==
    IF twice > d \/ (twice = d /\ m0 % 2 = 1) THEN m0 + 1 ELSE m0

\* the mantissa of the scaled number t, rounded
Mantissa(t) == NearestEven(t.n \div t.d, 2 * (t.n % t.d), t.d)

\* sign * mantissa * 2^e as a number
FromMantissa(s, m, e) ==
    IF e >= 0 THEN Num(s * m * IntPow(2, e), 1) ELSE Num(s * m, IntPow(2, -e))

FromScaled(s, t) == FromMantissa(s, Mantissa(t), t.e)

\* the floating-point number nearest to v, ties to the even mantissa
RoundToFloat(v) ==
    IF v.n = 0 THEN v
    ELSE FromScaled(IF v.n < 0 THEN -1 ELSE 1, Scaled(Abs(v.n), v.d, 0))

\* the result of one arithmetic operation whose exact value is v
Rnd(v) == IF arith = "float" /\ Ok(v) THEN RoundToFloat(v) ELSE v

\* a binary operation evaluates its left operand, then its right one
Both(a, b, v) == IF ~Ok(a) THEN a ELSE IF ~Ok(b) THEN b ELSE Rnd(v)

Add(a, b) == Both(a, b, QAdd(a, b))
Sub(a, b) == Both(a, b, QSub(a, b))
Mul(a, b) == Both(a, b, QMul(a, b))
\* float division: a zero divisor raises ZeroDivisionError
Div(a, b) ==
    Both(a, b, IF b.n = 0 THEN Raise("ZeroDivisionError")
               ELSE Num(a.n * b.d, a.d * b.n))

\* pow(a, k) and a**k for an integer exponent k: 0**0 is 1, and zero to a
\* negative power raises ZeroDivisionError
Pow(a, k) ==
    IF ~Ok(a) THEN a
    ELSE IF k >= 0 THEN Rnd(Num(IntPow(a.n, k), IntPow(a.d, k)))
    ELSE IF a.n = 0 THEN Raise("ZeroDivisionError")
    ELSE Rnd(Num(IntPow(a.d, -k), IntPow(a.n, -k)))

\* sum(...) over a sequence of numbers: a left fold that starts from 0
RECURSIVE SumSeq(_)
SumSeq(s) ==
    IF s = <<>> THEN Zero
    ELSE Add(SumSeq(SubSeq(s, 1, Len(s) - 1)), s[Len(s)])

----------------------------------------------------------------------------
(* The closed-form formulas.  nper and term are integers in the model. *)

\* a1*(1-q**n)/(1-q)
geometric_series_sum(a1, q, n) ==
    Div(Mul(a1, Sub(One, Pow(q, n))), Sub(One, q))

\* res if time == 0 else res*(1+rate)
future_value_factor(rate, nper, time) ==
    LET res == geometric_series_sum(One, Add(One, rate), nper)
    IN  IF time = 0 THEN res ELSE Mul(res, Add(One, rate))

\* a variant that divides by (1+rate) for the annuity-due
present_value_factor_due_divides(rate, nper, time) ==
    LET v == Div(One, Add(One, rate))
        res == geometric_series_sum(v, v, nper)
    IN  IF time = 0 THEN res ELSE Div(res, Add(One, rate))

present_value_factor(rate, nper, time) ==
    LET v == Div(One, Add(One, rate))
        res == geometric_series_sum(v, v, nper)
    IN  IF time = 0 THEN res ELSE Mul(res, Add(One, rate))

\* pmt*present_value_factor(rate, term, time) + fv/pow(1+rate, term)
present_value(pmt, rate, term, fv, time) ==
    Add(Mul(pmt, present_value_factor(rate, term, time)),
        Div(fv, Pow(Add(One, rate), term)))

\* pmt*future_value_factor(rate, term, time) + pv*pow(1+rate, term)
future_value(rate, term, pmt, pv, time) ==
    Add(Mul(pmt, future_value_factor(rate, term, time)),
        Mul(pv, Pow(Add(One, rate), term)))

\* c/pow(1+rate, t+1) for t, c in enumerate(cashflows): the sequence's index
\* i = t+1 runs from 1, so the exponent is the index itself
DiscountedFlows(rate, cashflows) ==
    [i \in 1..Len(cashflows) |->
        Div(cashflows[i], Pow(Add(One, rate), i))]

\* a variant that discounts the cash flow at index t by t periods
net_present_value_from0(rate, cashflows, investment) ==
    Sub(SumSeq([i \in 1..Len(cashflows) |->
                  Div(cashflows[i], Pow(Add(One, rate), i - 1))]),
        investment)

\* sum(c/pow(1+rate, t+1) ...) - investment
net_present_value(rate, cashflows, investment) ==
    Sub(SumSeq(DiscountedFlows(rate, cashflows)), investment)

\* (p1 + d - p0) / p0
holding_period_yield(p1, p0, interest) ==
    Div(Sub(Add(p1, interest), p0), p0)

\* [x] * k: k copies of x, none when k <= 0
Repeat(x, k) == [i \in 1..k |-> x]

\* a variant with term coupons before the final payment
Payments_extra_coupon(par_value, par_rate, term) ==
    Repeat(Mul(par_value, par_rate), term)
        \o <<Add(Mul(par_value, par_rate), par_value)>>

\* pmts = [par_value*par_rate] * (term - 1) + [par_value*par_rate + par_value]
Payments(par_value, par_rate, term) ==
    Repeat(Mul(par_value, par_rate), term - 1)
        \o <<Add(Mul(par_value, par_rate), par_value)>>

\* sum((t+1) * pmt/pow(1+ytm, t+1) for t, pmt in enumerate(pmts))/price
macaulay_duration(price, ytm, par_value, par_rate, term) ==
    LET pmts == Payments(par_value, par_rate, term)
    IN  Div(SumSeq([i \in 1..Len(pmts) |->
                      Div(Mul(Int2Num(i), pmts[i]), Pow(Add(One, ytm), i))]),
            price)

modified_duration(price, ytm, par_value, par_rate, term) ==
    Div(macaulay_duration(price, ytm, par_value, par_rate, term),
        Add(One, ytm))

----------------------------------------------------------------------------
(* Calendar dates.  A date string "YYYYMMDD" of eight digits is modelled   *)
(* as the integer its digits spell; strptime(d, "%Y%m%d") splits it into   *)
(* year, month and day and raises ValueError when they name no day.        *)

DaysInYear == 365

IsLeap(y) == (y % 4 = 0) /\ ((y % 100 # 0) \/ (y % 400 = 0))

DaysInMonth(y, m) ==
    IF m = 2 THEN (IF IsLeap(y) THEN 29 ELSE 28)
    ELSE IF m \in {4, 6, 9, 11} THEN 30 ELSE 31

YearOf(s) == s \div 10000
MonthOf(s) == (s \div 100) % 100
DayOf(s) == s % 100

ValidDate(s) ==
    /\ YearOf(s) >= 1
    /\ MonthOf(s) \in 1..12
    /\ DayOf(s) \in 1..DaysInMonth(YearOf(s), MonthOf(s))

RECURSIVE DaysBeforeMonth(_, _)
DaysBeforeMonth(y, m) ==
    IF m = 1 THEN 0 ELSE DaysBeforeMonth(y, m - 1) + DaysInMonth(y, m - 1)

\* datetime's proleptic Gregorian ordinal, 0001-01-01 being day 1
Ordinal(s) ==
    LET y == YearOf(s) - 1
    IN  y * 365 + y \div 4 - y \div 100 + y \div 400
          + DaysBeforeMonth(YearOf(s), MonthOf(s)) + DayOf(s)

\* [datetime.strptime(d, "%Y%m%d") for d in dates]: the parsed dates, or the
\* ValueError of the first string that names no day
ParseDates(dates) ==
    IF \E i \in 1..Len(dates) : ~ValidDate(dates[i])
    THEN [err |-> "ValueError", days |-> <<>>]
    ELSE [err |-> "", days |-> [i \in 1..Len(dates) |-> Ordinal(dates[i])]]

\* a variant that counts each date's days from the date before it
Delta_consecutive(days) == [i \in 1..(Len(days) - 1) |-> days[i + 1] - days[i]]

\* delta = [(d - dates[0]).days for d in dates[1:]]; dates[0] is read only
\* when dates[1:] has an element
Delta(days) == [i \in 1..(Len(days) - 1) |-> days[i + 1] - days[1]]

----------------------------------------------------------------------------
(* Dated cash flows.  xnpv turns the annual rate into the daily rate       *)
(* r = pow(1+rate, 1/365) - 1, so 1+r is the 365th root of B = 1+rate and  *)
(* pow(1+r, d) is B^(d/365): irrational in general.  A value of xnpv is    *)
(* therefore kept exactly, as a sum of terms coef[k] * B^(k/365) over      *)
(* the residues k in 0..364, with rational coefficients, the whole years   *)
(* of every exponent folded into the coefficient and no zero coefficient   *)
(* kept.  For B = 1 every power is 1 and the sum is one rational, at k=0.  *)
(* For the other bases of the model (none a fifth or a 73rd power of a     *)
(* rational) the powers B^(k/365), k in 0..364, are linearly independent   *)
(* over the rationals, so two values are equal numbers exactly when they   *)
(* are equal as such sums, and a value is 0 exactly when no term is left.  *)

XRaise(e) == [err |-> e, coef |-> [k \in {} |-> Zero]]
XOk(a) == a.err = ""
XZero == XRaise("")

\* the rational c as a value
XFromNum(c) ==
    IF ~Ok(c) THEN XRaise(c.err)
    ELSE [err |-> "", coef |-> [k \in (IF c.n = 0 THEN {} ELSE {0}) |-> c]]

XCoef(a, k) == IF k \in DOMAIN a.coef THEN a.coef[k] ELSE Zero

XAdd(a, b) ==
    IF ~XOk(a) THEN a
    ELSE IF ~XOk(b) THEN b
    ELSE LET keys == DOMAIN a.coef \cup DOMAIN b.coef
             sum(k) == Add(XCoef(a, k), XCoef(b, k))
         IN  [err |-> "",
              coef |-> [k \in {j \in keys : sum(j).n # 0} |-> sum(k)]]

RECURSIVE XSum(_)
XSum(s) ==
    IF s = <<>> THEN XZero
    ELSE XAdd(XSum(SubSeq(s, 1, Len(s) - 1)), s[Len(s)])

\* 1 + rate, the number whose 365th root is 1 + r (r = pow(1+rate, 1/365) - 1)
AnnualBase(rate) == Add(One, rate)

\* c/pow(1+r, d), with 1+r the 365th root of B >= 0.  For B = 0, 1+r is 0:
\* pow(0, 0) is 1, pow(0, d) is 0 for d > 0 and the division raises, and
\* zero to a negative power raises.
Discount(c, B, d) ==
    IF ~Ok(c) THEN XRaise(c.err)
    ELSE IF ~Ok(B) THEN XRaise(B.err)
    ELSE IF B.n = 0
         THEN (IF d = 0 THEN XFromNum(c) ELSE XRaise("ZeroDivisionError"))
    ELSE IF B = One THEN XFromNum(c)
    ELSE LET e == -d
             v == Mul(c, Pow(B, e \div DaysInYear))
         IN  [err |-> "",
              coef |-> [k \in (IF v.n = 0 THEN {} ELSE {e % DaysInYear})
                          |-> v]]

\* s[1:]
Rest(s) == IF s = <<>> THEN <<>> ELSE Tail(s)

Min(a, b) == IF a < b THEN a ELSE b

\* zip(a, b): pairs up to the shorter of the two
Zip(a, b) == [i \in 1..Min(Len(a), Len(b)) |-> <<a[i], b[i]>>]

xnpv(rate, dates, cashflows) ==
    LET parsed == ParseDates(dates)
        delta == Delta(parsed.days)
        B == AnnualBase(rate)
        pairs == Zip(Rest(cashflows), delta)
        total == XSum([i \in 1..Len(pairs) |->
                         Discount(pairs[i][1], B, pairs[i][2])])
    IN  IF parsed.err # "" THEN XRaise(parsed.err)
        ELSE IF ~XOk(total) THEN total
        ELSE IF cashflows = <<>> THEN XRaise("IndexError")
        ELSE XAdd(total, XFromNum(cashflows[1]))

\* a variant that parses the caller's list in place
xnpv_dates_inplace(dates) == ParseDates(dates).days

\* What the caller's list objects hold after a call.  xnpv binds its local
\* name dates to a new list and slices cashflows into a copy; neither
\* writes to the list it was given.
xnpv_dates_after(dates) == dates
xnpv_cashflows_after(cashflows) == cashflows
\* net_present_value and internal_rate only enumerate cashflows
npv_cashflows_after(cashflows) == cashflows

----------------------------------------------------------------------------
(* The residuals the root finders hand to fsolve. *)

\* a variant that discounts the cash flow at index t by t periods
internal_rate_func_from0(r, cashflows, initial_investment) ==
    Sub(SumSeq([i \in 1..Len(cashflows) |->
                  Div(cashflows[i], Pow(Add(One, r), i - 1))]),
        initial_investment)

\* func(r) = sum(c/pow(1+r, 1+t) for t, c in enumerate(cashflows))
\*             - initial_investment
internal_rate_func(r, cashflows, initial_investment) ==
    Sub(SumSeq([i \in 1..Len(cashflows) |->
                  Div(cashflows[i], Pow(Add(One, r), 1 + (i - 1)))]),
        initial_investment)

\* func(r) = present_value(pmt, r, nper, fv) - pv
discount_rate_func(r, pv, pmt, nper, fv) ==
    Sub(present_value(pmt, r, nper, fv, 0), pv)

\* lambda r: xnpv(r, dates, cashflows)
xirr_func(r, dates, cashflows) == xnpv(r, dates, cashflows)

----------------------------------------------------------------------------
(* The inputs callers draw from. *)

Rates == {Num(-1, 1), Num(-1, 2), Zero, Num(1, 10), Num(1, 2), One}
Amounts == {Zero, One, Int2Num(2)}
Ratios == {Zero, Num(1, 2), One, Int2Num(2)}
Cash == {Int2Num(-3), Zero, Int2Num(2)}
Periods == 0..MaxNper
Times == {-1, 0, 1, 2}
\* the last one names no day: 2007 is no leap year
DateStrings == {20060101, 20070101, 20070704, 20070229}
CouponRates == {Zero, Num(1, 2)}
\* rates a caller of the float arithmetic passes: sixteenths, each a
\* floating-point number of the model
FloatRates == {Num(k, 16) : k \in 1..12}
ParValues == {One, Int2Num(2)}

SeqsUpTo(S, n) == UNION {[1..k -> S] : k \in 0..n}
CashSeqs == SeqsUpTo(Cash, MaxLen)
DateSeqs == SeqsUpTo(DateStrings, MaxLen)
SolveCashSeqs == SeqsUpTo(Cash, MaxSolveLen)
SolveDateSeqs == SeqsUpTo(DateStrings, MaxSolveLen)
\* annual rates passed to xnpv
XnpvRates == {Num(-1, 1), Zero, Num(1, 2)}

RootFinders == {"internal_rate", "discount_rate", "xirr"}

\* default arguments
DefaultGuess == Num(1, 10)
XirrGuess == Zero

----------------------------------------------------------------------------
(* The root finders' residuals are evaluated by scipy's fsolve, which is   *)
(* not part of the library.  It passes the iterate as a numpy array, for   *)
(* which a division by zero yields inf or nan and no exception, so only    *)
(* ValueError and IndexError leave a residual.                             *)

Pending == Raise("pending")

Residual(f, a, r) ==
    CASE f = "internal_rate" ->
            internal_rate_func(r, a.cashflows, a.initial_investment)
      [] f = "discount_rate" ->
            discount_rate_func(r, a.pv, a.pmt, a.nper, a.fv)
      [] f = "xirr" -> xirr_func(r, a.dates, a.cashflows)

\* the residual is a number and that number is 0
IsRoot(v) ==
    /\ v.err = ""
    /\ IF "coef" \in DOMAIN v THEN DOMAIN v.coef = {} ELSE v.n = 0

\* the residual raises an exception numpy arithmetic does not absorb
Escapes(v) == v.err \in {"ValueError", "IndexError"}

\* fsolve(func, guess)[0]: called without full_output, fsolve hands back the
\* iterate alone, whatever its verdict info
fsolve_first(xv, info) == xv

Guesses == {DefaultGuess, Num(1, 2)}

\* the investments a caller passes: plain amounts, and the net present value
\* of the same cash flows at some rate
Investments(cf) ==
    Amounts \cup {v \in {net_present_value(r, cf, Zero) : r \in Rates} : Ok(v)}

----------------------------------------------------------------------------
(* The library keeps no state: a behaviour of the model is one call, from  *)
(* the caller's choice of function and arguments to the result.  The       *)
(* annuity factors are called in both arithmetics, the other functions in  *)
(* the exact one.                                                          *)

BondArgs ==
    [price : Amounts, ytm : Rates, par_value : ParValues,
     par_rate : CouponRates, term : Periods]

\* the calls made in exact arithmetic only
InitExact ==
\/ /\ fn = "geometric_series_sum"
   /\ args \in [a1 : Amounts, q : Ratios, n : Periods]
\/ /\ fn = "present_value"
   /\ args \in [pmt : Amounts, rate : Rates, term : Periods,
                fv : Amounts, time : {0, 1}]
\/ /\ fn = "future_value"
   /\ args \in [rate : Rates, term : Periods, pmt : Amounts,
                pv : Amounts, time : {0, 1}]
\/ /\ fn = "net_present_value"
   /\ args \in [rate : Rates, cashflows : CashSeqs,
                investment : Amounts]
\/ /\ fn = "holding_period_yield"
   /\ args \in [p1 : Amounts, p0 : Amounts, interest : Amounts]
\/ /\ fn = "xnpv"
   /\ args \in [rate : XnpvRates, dates : DateSeqs, cashflows : CashSeqs]
\/ /\ fn \in {"macaulay_duration", "modified_duration"}
   /\ args \in BondArgs
\/ /\ fn = "internal_rate"
   /\ \E cf \in SolveCashSeqs, guess \in Guesses :
         \E inv \in Investments(cf) :
             args = [cashflows |-> cf, initial_investment |-> inv,
                     guess |-> guess]
\/ /\ fn = "discount_rate"
   /\ args \in [pv : Amounts, pmt : Amounts, nper : Periods,
                fv : Amounts, guess : Guesses]
\/ /\ fn = "xirr"
   /\ args \in [dates : SolveDateSeqs, cashflows : SolveCashSeqs]

\* the caller picks an arithmetic, a function and its arguments
Init ==
    /\ arith \in {"exact", "float"}
    /\ pc = "call"
    /\ result = Pending
    /\ iterate = Zero
    /\ nfev = 0
    /\ ier = 0
    /\ \/ /\ arith = "float"
          /\ fn \in {"future_value_factor", "present_value_factor"}
          /\ args \in [rate : FloatRates, nper : Periods, time : Times]
       \/ /\ arith = "exact"
          /\ fn \in {"future_value_factor", "present_value_factor"}
          /\ args \in [rate : Rates, nper : Periods, time : Times]
       \/ /\ arith = "exact"
          /\ InitExact
    /\ caller_cashflows =
          (IF "cashflows" \in DOMAIN args THEN args.cashflows ELSE <<>>)
    /\ caller_dates = (IF "dates" \in DOMAIN args THEN args.dates ELSE <<>>)

\* a call that returns (or raises) at once, leaving cf and ds in the
\* caller's lists
Return(f, res, cf, ds) ==
    /\ pc = "call"
    /\ fn = f
    /\ result' = res
    /\ caller_cashflows' = cf
    /\ caller_dates' = ds
    /\ pc' = "done"
    /\ UNCHANGED <<arith, fn, args, iterate, nfev, ier>>

Call_geometric_series_sum ==
    Return("geometric_series_sum",
           geometric_series_sum(args.a1, args.q, args.n),
           caller_cashflows, caller_dates)

Call_future_value_factor ==
    Return("future_value_factor",
           future_value_factor(args.rate, args.nper, args.time),
           caller_cashflows, caller_dates)

Call_present_value_factor ==
    Return("present_value_factor",
           present_value_factor(args.rate, args.nper, args.time),
           caller_cashflows, caller_dates)

Call_present_value ==
    Return("present_value",
           present_value(args.pmt, args.rate, args.term, args.fv, args.time),
           caller_cashflows, caller_dates)

Call_future_value ==
    Return("future_value",
           future_value(args.rate, args.term, args.pmt, args.pv, args.time),
           caller_cashflows, caller_dates)

Call_net_present_value ==
    Return("net_present_value",
           net_present_value(args.rate, caller_cashflows, args.investment),
           npv_cashflows_after(caller_cashflows), caller_dates)

Call_holding_period_yield ==
    Return("holding_period_yield",
           holding_period_yield(args.p1, args.p0, args.interest),
           caller_cashflows, caller_dates)

Call_xnpv ==
    Return("xnpv", xnpv(args.rate, caller_dates, caller_cashflows),
           xnpv_cashflows_after(caller_cashflows),
           xnpv_dates_after(caller_dates))

Call_macaulay_duration ==
    Return("macaulay_duration",
           macaulay_duration(args.price, args.ytm, args.par_value,
                             args.par_rate, args.term),
           caller_cashflows, caller_dates)

Call_modified_duration ==
    Return("modified_duration",
           modified_duration(args.price, args.ytm, args.par_value,
                             args.par_rate, args.term),
           caller_cashflows, caller_dates)

----------------------------------------------------------------------------
(* The root finders.  Each hands its residual and a guess to fsolve and    *)
(* returns element 0 of what fsolve hands back.  fsolve is modelled by its *)
(* contract: it evaluates the residual at the guess, moves from iterate to *)
(* iterate (here: any rate of the grid), stops with ier = 1 at a zero of   *)
(* the residual, and stops with ier = 2 when its evaluation budget is      *)
(* spent.                                                                  *)

\* what one evaluation of the residual leaves in the caller's lists
ListsAfterEvaluation ==
    /\ caller_cashflows' =
          (IF fn = "xirr" THEN xnpv_cashflows_after(caller_cashflows)
           ELSE IF fn = "internal_rate"
                THEN npv_cashflows_after(caller_cashflows)
           ELSE caller_cashflows)
    /\ caller_dates' =
          (IF fn = "xirr" THEN xnpv_dates_after(caller_dates)
           ELSE caller_dates)

\* the call enters fsolve, which evaluates the residual at the guess
Solve(f, guess) ==
    /\ pc = "call"
    /\ fn = f
    /\ ListsAfterEvaluation
    /\ IF Escapes(Residual(f, args, guess))
       THEN /\ result' = Raise(Residual(f, args, guess).err)
            /\ pc' = "done"
            /\ iterate' = iterate
       ELSE /\ result' = result
            /\ iterate' = guess
            /\ pc' = "solving"
    /\ UNCHANGED <<arith, fn, args, nfev, ier>>

Call_internal_rate == Solve("internal_rate", args.guess)

Call_discount_rate == Solve("discount_rate", args.guess)

Call_xirr == Solve("xirr", XirrGuess)

\* fsolve moves to another iterate and evaluates the residual there
FsolveStep ==
    /\ pc = "solving"
    /\ ~IsRoot(Residual(fn, args, iterate))
    /\ nfev < MaxFev
    /\ \E y \in Rates \ {iterate} : iterate' = y
    /\ nfev' = nfev + 1
    /\ ListsAfterEvaluation
    /\ UNCHANGED <<arith, fn, args, result, pc, ier>>

\* the iterate is a zero of the residual: fsolve reports success
FsolveConverged ==
    /\ pc = "solving"
    /\ IsRoot(Residual(fn, args, iterate))
    /\ ier' = 1
    /\ result' = fsolve_first(iterate, 1)
    /\ pc' = "done"
    /\ UNCHANGED
          <<arith, fn, args, caller_cashflows, caller_dates, iterate, nfev>>

\* the budget is spent away from a zero: fsolve warns and hands back its
\* last iterate
FsolveExhausted ==
    /\ pc = "solving"
    /\ ~IsRoot(Residual(fn, args, iterate))
    /\ nfev = MaxFev
    /\ ier' = 2
    /\ result' = fsolve_first(iterate, 2)
    /\ pc' = "done"
    /\ UNCHANGED
          <<arith, fn, args, caller_cashflows, caller_dates, iterate, nfev>>

Next ==
    \/ Call_geometric_series_sum
    \/ Call_future_value_factor
    \/ Call_present_value_factor
    \/ Call_present_value
    \/ Call_future_value
    \/ Call_net_present_value
    \/ Call_holding_period_yield
    \/ Call_xnpv
    \/ Call_macaulay_duration
    \/ Call_modified_duration
    \/ Call_internal_rate
    \/ Call_discount_rate
    \/ Call_xirr
    \/ FsolveStep
    \/ FsolveConverged
    \/ FsolveExhausted

Spec == Init /\ [][Next]_vars

----------------------------------------------------------------------------
(* Properties. *)

Done(f) == pc = "done" /\ fn = f

\* C1: future_value_factor and present_value_factor called with a time
\* other than 0 or 1 are rejected: the call ends in an error and returns no
\* factor.
C1_TimeSwitchRejected ==
    (/\ pc = "done"
     /\ fn \in {"future_value_factor", "present_value_factor"}
     /\ args.time \notin {0, 1})
        => ~Ok(result)

\* C2: geometric_series_sum(a1, 1, n) ends in the named failure
\* DegenerateArithmetic: it returns no value and lets no low-level arithmetic
\* fault reach the caller.
C2_DegenerateRatioNamed ==
    (Done("geometric_series_sum") /\ args.q = One)
        => result.err = "DegenerateArithmetic"

\* C3: xnpv called with dates and cashflows of different lengths ends in an
\* error and returns no net present value.
C3_LengthMismatchRejected ==
    (Done("xnpv") /\ Len(args.dates) # Len(args.cashflows))
        => ~XOk(result)

\* C4: when fsolve spends its budget without reaching a zero of the
\* residual, internal_rate, discount_rate and xirr fail, or return the
\* estimate together with a convergence flag; never a bare rate.
C4_NonConvergenceSurfaced ==
    (pc = "done" /\ fn \in RootFinders /\ ier = 2)
        => (~Ok(result) \/ "converged" \in DOMAIN result)

\* The discounted sum c[1]*v + c[2]*v^2 + ... + c[n]*v^n in Horner's form
RECURSIVE Horner(_, _)
Horner(cf, v) ==
    IF cf = <<>> THEN Zero
    ELSE Mul(v, Add(Head(cf), Horner(Tail(cf), v)))

DayNumber(s) ==
    LET a == (14 - MonthOf(s)) \div 12
        y == YearOf(s) + 4800 - a
        m == MonthOf(s) + 12 * a - 3
    IN  DayOf(s) + (153 * m + 2) \div 5 + 365 * y + y \div 4 - y \div 100
          + y \div 400 - 32045

\* C6: for dated series of equal length n >= 1, xnpv(rate, dates, cashflows)
\* is cashflows[0] undiscounted plus the sum over i = 1..n-1 of
\* cashflows[i]/(1+r)^(days from dates[0] to dates[i]): each cash flow is
\* paired with the day count of its own date, counted from dates[0].
C6_XnpvFormula ==
    (/\ Done("xnpv")
     /\ Len(args.dates) = Len(args.cashflows)
     /\ Len(args.dates) >= 1
     /\ \A i \in 1..Len(args.dates) : ValidDate(args.dates[i]))
        => result =
             XAdd(XFromNum(args.cashflows[1]),
                  XSum([j \in 1..(Len(args.cashflows) - 1) |->
                          Discount(args.cashflows[j + 1], Add(One, args.rate),
                                   DayNumber(args.dates[j + 1])
                                     - DayNumber(args.dates[1]))]))

\* -3 + 2/1.5^(549/365) + 2/1.5^1: the second flow 549 days, the third
\* 365 days after the first; 2/1.5^(549/365) is (8/9) * 1.5^(181/365)
C6_Witness ==
    /\ Done("xnpv")
    /\ args.rate = Num(1, 2)
    /\ args.dates = <<20060101, 20070704, 20070101>>
    /\ args.cashflows = <<Int2Num(-3), Int2Num(2), Int2Num(2)>>
    /\ result = [err |-> "",
                 coef |-> [k \in {0, 181} |->
                             IF k = 0 THEN Num(-5, 3) ELSE Num(8, 9)]]

ArgList(name) == IF name \in DOMAIN args THEN args[name] ELSE <<>>

\* the rates r of the grid with net_present_value(r, cf) = inv
RatesValuedAt(cf, inv) ==
    {r \in Rates : Add(One, r) # Zero /\ net_present_value(r, cf, Zero) = inv}

\* the zeros of internal_rate's residual on the grid
ResidualZeros(cf, inv) ==
    {r \in Rates : IsRoot(internal_rate_func(r, cf, inv))}

\* C8, as claimed: round trip: internal_rate(cashflows,
\* net_present_value(r, cashflows)) returns r.  Stated for a solve that
\* converged, over cash flows that are not all zero.
C8_RoundTripReturnsRate ==
    (/\ Done("internal_rate")
     /\ ier = 1
     /\ \E i \in 1..Len(args.cashflows) : args.cashflows[i] # Zero)
        => \A r \in RatesValuedAt(args.cashflows, args.initial_investment) :
              result = r

\* C8, amended: the residual internal_rate drives to zero is exactly
\* net_present_value(y, cashflows) - initial_investment, with the same
\* period-1-based indexing, so every rate r with
\* net_present_value(r, cashflows) = initial_investment is a zero of it; a
\* rate returned by a converged solve is a zero of that residual, and it is
\* r when the residual has no other zero.
C8_ResidualAndRoot ==
    Done("internal_rate") =>
        /\ \A y \in Rates :
              Add(One, y) # Zero =>
                 internal_rate_func(y, args.cashflows,
                                    args.initial_investment)
                   = Sub(net_present_value(y, args.cashflows, Zero),
                         args.initial_investment)
        /\ RatesValuedAt(args.cashflows, args.initial_investment)
              \subseteq ResidualZeros(args.cashflows, args.initial_investment)
        /\ ier = 1 =>
              /\ result \in ResidualZeros(args.cashflows,
                                          args.initial_investment)
              /\ \A r \in RatesValuedAt(args.cashflows,
                                        args.initial_investment) :
                    ResidualZeros(args.cashflows, args.initial_investment)
                       = {r} => result = r

\* net_present_value(1, [-3, 2]) = -1, and internal_rate([-3, 2], -1)
\* converges to 0, the residual's other zero
C8_Witness ==
    /\ Done("internal_rate")
    /\ ier = 1
    /\ args.cashflows = <<Int2Num(-3), Int2Num(2)>>
    /\ args.initial_investment = net_present_value(One, args.cashflows, Zero)
    /\ args.initial_investment = Int2Num(-1)
    /\ result = Zero

PaymentOf(t, par_value, par_rate, term) ==
    IF t < term THEN Mul(par_value, par_rate)
    ELSE Add(Mul(par_value, par_rate), par_value)

\* C10: for term >= 1 the schedule macaulay_duration builds has exactly term
\* payments, the first term-1 equal to par_value*par_rate and the last to
\* par_value*par_rate + par_value, and the result is the sum over
\* t = 1..term of t*payment_t/(1+ytm)^t, divided by price.
C10_Schedule ==
    (Done("macaulay_duration") /\ args.term >= 1)
        => LET pmts == Payments(args.par_value, args.par_rate, args.term)
           IN  /\ Len(pmts) = args.term
               /\ \A t \in 1..args.term :
                     pmts[t] = PaymentOf(t, args.par_value, args.par_rate,
                                         args.term)
               /\ (Add(One, args.ytm) # Zero /\ args.price # Zero)
                     => /\ Ok(result)
                        /\ result =
                             Div(SumSeq([t \in 1..args.term |->
                                    Div(Mul(Int2Num(t),
                                            PaymentOf(t, args.par_value,
                                                      args.par_rate,
                                                      args.term)),
                                        Pow(Add(One, args.ytm), t))]),
                                 args.price)

\* payments 1, 1, 3 at ytm 1/2 and price 2:
\* (1/1.5 + 2/1.5^2 + 9/1.5^3)/2 = 19/9
C10_Witness ==
    /\ Done("macaulay_duration")
    /\ args.term = 3
    /\ args.price = Int2Num(2)
    /\ args.ytm = Num(1, 2)
    /\ args.par_value = Int2Num(2)
    /\ args.par_rate = Num(1, 2)
    /\ result = Num(19, 9)

====
